---- MODULE Spec2Model ----
(***************************************************************************)
(* A model of gui/core/nanogui.py: the raster primitives (_circle, circle, *)
(* fillcircle, polar, arrow), the render registry (DObject.devices,        *)
(* refresh, DObject._set_pend) and the widget base class DObject           *)
(* (__init__, warning, show, value).                                       *)
(*                                                                         *)
(* Every operation is one atomic action (the program is single threaded    *)
(* and no operation suspends).  An action records the operation and its    *)
(* arguments in args, the calls it makes, in program order, in calls, what *)
(* it returns or raises in ret, and the lines it prints in stdout.         *)
(***************************************************************************)
EXTENDS Integers, Sequences, FiniteSets

VARIABLES
    devices,   \* DObject.devices: registered device -> set of pending objects
    objs,      \* the DObject instances: id -> record of instance attributes
    args,      \* the operation last invoked and its arguments
    calls,     \* the calls that operation made, in program order
    ret,       \* what it returned ("None", a value) or the exception it raised
    stdout,    \* number of warning lines it printed
    pc,        \* "call": the arguments are drawn, "done": the call was made; "idle" in the GUI
    inits,     \* history: device -> number of first-use blankings by refresh
    dropped,   \* history: objects discarded by a hard clear and not pended since
    pends      \* history: object -> its _set_pend calls since the last refresh of its device,
               \* and those the operation flushed, when it was a refresh of its device

vars == <<devices, objs, args, calls, ret, stdout, pc, inits, dropped, pends>>

----------------------------------------------------------------------------
(* Bounds of the checked input ranges.                                     *)
MaxR == 5         \* radii are drawn from -NegR..MaxR
NegR == 2
MaxWidth == 3     \* circle widths 1..MaxWidth
MaxCentre == 1    \* circle centres (x0, y0) in 0..MaxCentre
MaxVec == 3       \* arrow vector components in -MaxVec..MaxVec
MaxLc == 3        \* chevron lengths 0..MaxLc
MaxColor == 1     \* border colours 0..MaxColor
MinDim == 4       \* device width and height MinDim..MaxDim in the constructor check
MaxDim == 5
NegPos == 2       \* constructor row, col in -NegPos..MaxPos
MaxPos == 4
MaxSize == 2      \* constructor height, width in 1..MaxSize
MaxPend == 2      \* _set_pend calls counted per object between two refreshes

----------------------------------------------------------------------------
(* Values and records.                                                     *)

\* A call made by an operation: fn applied on the receiver on (a device id
\* or an object id; "pending.clear" is applied on the pending set of the
\* device on) with integer arguments a.
Call(fn, on, a) == [fn |-> fn, on |-> on, a |-> a]

\* The arguments of an operation: who is the device or object it is applied
\* to, flag is a boolean argument, n are the integer arguments, v a value.
Args(fn, who, flag, n, v) == [fn |-> fn, who |-> who, flag |-> flag, n |-> n, v |-> v]

Abs(i) == IF i < 0 THEN -i ELSE i

----------------------------------------------------------------------------
(* Raster primitives.  A primitive is a pure function of its arguments to  *)
(* the sequence of calls it makes on the device dev.                       *)

\* the loop of _circle, entered with the values of x, y, err
RECURSIVE _circle_loop(_, _, _, _, _, _, _)
_circle_loop(dev, x0, y0, color, x, y, err) ==
    IF x <= 0
    THEN LET e2   == err
             ystp == e2 <= y
             y1   == IF ystp THEN y + 1 ELSE y
             err1 == IF ystp THEN err + y1 * 2 + 1 ELSE err
             e2b  == IF ystp /\ -x = y1 /\ e2 <= x THEN 0 ELSE e2
             xstp == e2b > x
             x1   == IF xstp THEN x + 1 ELSE x
             err2 == IF xstp THEN err1 + x1 * 2 + 1 ELSE err1
         IN  << Call("pixel", dev, <<x0 - x, y0 + y, color>>),
                Call("pixel", dev, <<x0 + x, y0 + y, color>>),
                Call("pixel", dev, <<x0 + x, y0 - y, color>>),
                Call("pixel", dev, <<x0 - x, y0 - y, color>>) >>
             \o _circle_loop(dev, x0, y0, color, x1, y1, err2)
    ELSE << >>

\* a plausible slip: the fourth mirrored pixel is not written
RECURSIVE _circle_loop_3px(_, _, _, _, _, _, _)
_circle_loop_3px(dev, x0, y0, color, x, y, err) ==
    IF x <= 0
    THEN LET e2   == err
             ystp == e2 <= y
             y1   == IF ystp THEN y + 1 ELSE y
             err1 == IF ystp THEN err + y1 * 2 + 1 ELSE err
             e2b  == IF ystp /\ -x = y1 /\ e2 <= x THEN 0 ELSE e2
             xstp == e2b > x
             x1   == IF xstp THEN x + 1 ELSE x
             err2 == IF xstp THEN err1 + x1 * 2 + 1 ELSE err1
         IN  << Call("pixel", dev, <<x0 - x, y0 + y, color>>),
                Call("pixel", dev, <<x0 + x, y0 + y, color>>),
                Call("pixel", dev, <<x0 + x, y0 - y, color>>) >>
             \o _circle_loop_3px(dev, x0, y0, color, x1, y1, err2)
    ELSE << >>

\* a plausible slip: x starts at r instead of -r
_circle_xpos(dev, x0, y0, r, color) == _circle_loop(dev, x0, y0, color, r, 0, 2 - 2 * r)

\* a plausible slip: three of the four mirrored pixels
_circle_3px(dev, x0, y0, r, color) == _circle_loop_3px(dev, x0, y0, color, -r, 0, 2 - 2 * r)

\* _circle(dev, x0, y0, r, color): single pixel circle
_circle(dev, x0, y0, r, color) == _circle_loop(dev, x0, y0, color, -r, 0, 2 - 2 * r)

\* the radii of range(r, r - width, -1), in order
RECURSIVE range_down(_, _)
range_down(r, stop) == IF r > stop THEN <<r>> \o range_down(r - 1, stop) ELSE << >>

RECURSIVE circle_radii(_, _, _, _, _)
circle_radii(dev, x0, y0, rs, color) ==
    IF rs = << >> THEN << >>
    ELSE _circle(dev, x0, y0, Head(rs), color) \o circle_radii(dev, x0, y0, Tail(rs), color)

\* circle(dev, x0, y0, r, color, width): the arguments are integers, on which
\* int() changes nothing
circle(dev, x0, y0, r, color, width) ==
    circle_radii(dev, x0, y0, range_down(r, r - width), color)

\* the loop of fillcircle
RECURSIVE fillcircle_loop(_, _, _, _, _, _, _)
fillcircle_loop(dev, x0, y0, color, x, y, err) ==
    IF x <= 0
    THEN LET e2   == err
             ystp == e2 <= y
             y1   == IF ystp THEN y + 1 ELSE y
             err1 == IF ystp THEN err + y1 * 2 + 1 ELSE err
             e2b  == IF ystp /\ -x = y1 /\ e2 <= x THEN 0 ELSE e2
             xstp == e2b > x
             x1   == IF xstp THEN x + 1 ELSE x
             err2 == IF xstp THEN err1 + x1 * 2 + 1 ELSE err1
         IN  << Call("line", dev, <<x0 - x, y0 - y, x0 - x, y0 + y, color>>),
                Call("line", dev, <<x0 + x, y0 - y, x0 + x, y0 + y, color>>) >>
             \o fillcircle_loop(dev, x0, y0, color, x1, y1, err2)
    ELSE << >>

\* fillcircle(dev, x0, y0, r, color)
fillcircle(dev, x0, y0, r, color) == fillcircle_loop(dev, x0, y0, color, -r, 0, 2 - 2 * r)

----------------------------------------------------------------------------
(* Complex arithmetic of polar and arrow.  origin and vec have integer     *)
(* components; every coordinate the code rounds is then a number           *)
(*     i + (q + p * sqrt(2)) / sqrt(m)      (i, q, p, m integers, m > 0)   *)
(* and round() of it is computed exactly, by comparing squares.            *)

\* the sign (-1, 0, 1) of a + b * sqrt(2)
SignRoot2(a, b) ==
    IF a = 0 /\ b = 0 THEN 0
    ELSE IF a >= 0 /\ b >= 0 THEN 1
    ELSE IF a <= 0 /\ b <= 0 THEN -1
    ELSE IF a > 0 THEN (IF a * a > 2 * b * b THEN 1 ELSE -1)
    ELSE (IF 2 * b * b > a * a THEN 1 ELSE -1)

\* k2 / 2 < (q + p * sqrt(2)) / sqrt(m), for an odd k2
HalfBelow(k2, q, p, m) ==
    LET sl == IF k2 > 0 THEN 1 ELSE -1
        sr == SignRoot2(2 * q, 2 * p)
        \* sign of (2q + 2p sqrt2)^2 - k2^2 m
        sd == SignRoot2(4 * q * q + 8 * p * p - k2 * k2 * m, 8 * q * p)
    IN  IF sl # sr THEN sl < sr
        ELSE IF sl > 0 THEN sd > 0
        ELSE sd < 0

\* k2 / 2 = (q + p * sqrt(2)) / sqrt(m), for an odd k2: an exact tie
HalfIs(k2, q, p, m) ==
    /\ (IF k2 > 0 THEN 1 ELSE -1) = SignRoot2(2 * q, 2 * p)
    /\ SignRoot2(4 * q * q + 8 * p * p - k2 * k2 * m, 8 * q * p) = 0

\* round((q + p * sqrt(2)) / sqrt(m)): the nearest integer, an exact half
\* going to the even neighbour as Python's round() does
round(q, p, m) ==
    LET b == Abs(q) + 2 * Abs(p)   \* |q + p * sqrt(2)| <= b
    IN  CHOOSE k \in -b .. b :
            /\ (k = 0 \/ (2 * Abs(k) - 1) * (2 * Abs(k) - 1) * m <= 4 * b * b)
            /\ HalfBelow(2 * k - 1, q, p, m) \/ (HalfIs(2 * k - 1, q, p, m) /\ k % 2 = 0)
            /\ ~HalfBelow(2 * k + 1, q, p, m)
            /\ HalfIs(2 * k + 1, q, p, m) => k % 2 = 0

\* polar(dev, origin, line, color) with origin = ox + oy j and the rounded
\* ends of the segment: one dev.line call
polar(dev, xs, ys, xe, ye, color) == Call("line", dev, <<xs, ys, xe, ye, color>>)

\* a plausible slip: >= in place of >
LengthReaches(re, im, k, lc) == lc < 0 \/ re * re + im * im >= k * k * lc * lc

\* cmath.polar(vec)[0] > k * lc, for an integer k >= 0
LengthExceeds(re, im, k, lc) == lc < 0 \/ re * re + im * im > k * k * lc * lc

\* arrow(dev, origin, vec, lc, color) with origin = ox + oy j, vec = re + im j
arrow(dev, ox, oy, re, im, lc, color) ==
    LET \* uv = cmath.rect(1, theta) = (ur + ui j) / sqrt(n); theta is 0 for vec = 0
        ur == IF re = 0 /\ im = 0 THEN 1 ELSE re
        ui == IF re = 0 /\ im = 0 THEN 0 ELSE im
        n  == ur * ur + ui * ui
        m  == 2 * n
        long == LengthExceeds(re, im, 3, lc)
        \* start = -vec + ds, ds = (dr + di j) / sqrt(n), as (.. * sqrt(2)) / sqrt(m)
        dr == IF long THEN lc * ur ELSE 0
        di == IF long THEN lc * ui ELSE 0
        \* chev * ccw * uv = (cr + ci j) / sqrt(m), chev * cw * uv = (wr + wi j) / sqrt(m)
        cr == lc * (-ur - ui)
        ci == lc * (ur - ui)
        wr == lc * (-ur + ui)
        wi == lc * (-ur - ui)
        \* the tip: origin + conj(vec)
        tx == ox + re
        ty == oy - im
        \* the tail: origin + conj(start), rounded, is (ox - re + sx, oy + im + sy)
        sx == round(0, dr, m)
        sy == round(0, -di, m)
    IN  << polar(dev, ox, oy, ox + re, oy - im, color),
           polar(dev, ox, oy, ox - re + sx, oy + im + sy, color),
           polar(dev, tx, ty, tx + round(cr, 0, m), ty + round(-ci, 0, m), color),
           polar(dev, tx, ty, tx + round(wr, 0, m), ty + round(-wi, 0, m), color) >>
        \o (IF LengthExceeds(re, im, 1, lc)
            THEN << polar(dev, ox - re + sx, oy + im + sy,
                          ox - re + round(cr, dr, m), oy + im + round(-ci, -di, m), color),
                    polar(dev, ox - re + sx, oy + im + sy,
                          ox - re + round(wr, dr, m), oy + im + round(-wi, -di, m), color) >>
            ELSE << >>)

----------------------------------------------------------------------------
(* The raster primitives applied to drawn arguments.                       *)

RasterArgs ==
    { Args("_circle", "fb", FALSE, <<x0, y0, r, c>>, "None") :
        x0 \in 0 .. MaxCentre, y0 \in 0 .. MaxCentre, r \in -NegR .. MaxR, c \in {1} }
    \cup
    { Args("circle", "fb", FALSE, <<x0, y0, r, c, w>>, "None") :
        x0 \in 0 .. MaxCentre, y0 \in 0 .. MaxCentre, r \in -NegR .. MaxR, c \in {1},
        w \in 1 .. MaxWidth }
    \cup
    { Args("fillcircle", "fb", FALSE, <<x0, y0, r, c>>, "None") :
        x0 \in 0 .. MaxCentre, y0 \in 0 .. MaxCentre, r \in -NegR .. MaxR, c \in {1} }
    \cup
    { Args("arrow", "fb", FALSE, <<ox, oy, re, im, lc, c>>, "None") :
        ox \in {5}, oy \in {5, 6}, re \in -MaxVec .. MaxVec, im \in -MaxVec .. MaxVec,
        lc \in 0 .. MaxLc, c \in {1} }

Call_circle ==
    /\ pc = "call" /\ args.fn = "_circle"
    /\ calls' = _circle(args.who, args.n[1], args.n[2], args.n[3], args.n[4])
    /\ pc' = "done"
    /\ UNCHANGED <<devices, objs, args, ret, stdout, inits, dropped, pends>>

CallCircle ==
    /\ pc = "call" /\ args.fn = "circle"
    /\ calls' = circle(args.who, args.n[1], args.n[2], args.n[3], args.n[4], args.n[5])
    /\ pc' = "done"
    /\ UNCHANGED <<devices, objs, args, ret, stdout, inits, dropped, pends>>

CallFillcircle ==
    /\ pc = "call" /\ args.fn = "fillcircle"
    /\ calls' = fillcircle(args.who, args.n[1], args.n[2], args.n[3], args.n[4])
    /\ pc' = "done"
    /\ UNCHANGED <<devices, objs, args, ret, stdout, inits, dropped, pends>>

CallArrow ==
    /\ pc = "call" /\ args.fn = "arrow"
    /\ calls' = arrow(args.who, args.n[1], args.n[2], args.n[3], args.n[4], args.n[5], args.n[6])
    /\ pc' = "done"
    /\ UNCHANGED <<devices, objs, args, ret, stdout, inits, dropped, pends>>

RasterInit ==
    /\ args \in RasterArgs
    /\ pc = "call"
    /\ calls = << >>
    /\ ret = "None"
    /\ stdout = 0
    /\ devices = << >>
    /\ objs = << >>
    /\ inits = << >>
    /\ dropped = {}
    /\ pends = << >>

RasterNext == Call_circle \/ CallCircle \/ CallFillcircle \/ CallArrow

SpecRaster == RasterInit /\ [][RasterNext]_vars

----------------------------------------------------------------------------
(* Claims about the raster primitives (checked under SpecRaster).          *)

\* the pixels written by the pixel calls of a sequence of calls
Plotted(cs) == { <<cs[i].a[1], cs[i].a[2]>> : i \in { j \in 1 .. Len(cs) : cs[j].fn = "pixel" } }

\* the last call was the single pixel circle routine with a radius r >= 0
SinglePixelCircleDone ==
    /\ pc = "done"
    /\ args.fn = "_circle" \/ (args.fn = "circle" /\ args.n[5] = 1)
    /\ args.n[3] >= 0

\* C7: for every centre and radius r >= 0 the pixel set plotted by _circle
\* (and by circle with width 1) is unchanged by reflection across both axes
\* through the centre and by a rotation of 90 degrees about it:
\* (x0+a, y0+b) is plotted iff (x0-a, y0+b), (x0+a, y0-b) and (x0-b, y0+a) are.
C7_CircleSymmetric ==
    SinglePixelCircleDone =>
        LET x0 == args.n[1]
            y0 == args.n[2]
            d  == args.n[3] + 1
            P  == Plotted(calls)
        IN  \A a \in -d .. d, b \in -d .. d :
                (<<x0 + a, y0 + b>> \in P)
                    <=> /\ <<x0 - a, y0 + b>> \in P
                        /\ <<x0 + a, y0 - b>> \in P
                        /\ <<x0 - b, y0 + a>> \in P

\* C7 witness: a circle of radius 3 was drawn and has off-axis pixels
C7_Witness ==
    /\ SinglePixelCircleDone
    /\ args.n[3] = 3
    /\ \E q \in Plotted(calls) : q[1] # args.n[1] /\ q[2] # args.n[2]

ArrowDone == pc = "done" /\ args.fn = "arrow"

\* |vec| <= lc for the arguments of the arrow call (lc >= 0 in the checked range)
ArrowShort == args.n[3] * args.n[3] + args.n[4] * args.n[4] <= args.n[5] * args.n[5]

\* C8 as stated: with |vec| <= lc the only line calls are one shaft segment
\* from origin to origin + vec and the two tip chevron strokes.
C8_Original ==
    (ArrowDone /\ ArrowShort) =>
        /\ Len(calls) = 3
        /\ calls[1].a = <<args.n[1], args.n[2], args.n[1] + args.n[3], args.n[2] - args.n[4], args.n[6]>>

\* C8 amended: with |vec| <= lc arrow() emits no tail chevron strokes; its
\* line calls are exactly four: the shaft as two strokes out of the origin,
\* origin -> origin + vec and origin -> origin - vec, and the two tip chevron
\* strokes, which start at the tip.  The two tail chevron strokes (calls five
\* and six, starting where the tail stroke ends) are emitted iff |vec| > lc.
C8_ArrowShortVector ==
    ArrowDone =>
        LET ox == args.n[1]
            oy == args.n[2]
            re == args.n[3]
            im == args.n[4]
            c  == args.n[6]
        IN  /\ Len(calls) \in {4, 6}
            /\ \A i \in 1 .. Len(calls) : calls[i].fn = "line"
            /\ (Len(calls) = 6) <=> ~ArrowShort
            /\ calls[1].a = <<ox, oy, ox + re, oy - im, c>>
            /\ <<calls[2].a[1], calls[2].a[2]>> = <<ox, oy>>
            /\ \A i \in {3, 4} : <<calls[i].a[1], calls[i].a[2]>> = <<ox + re, oy - im>>
            /\ ArrowShort => calls[2].a = <<ox, oy, ox - re, oy + im, c>>
            /\ ~ArrowShort => \A i \in {5, 6} :
                   <<calls[i].a[1], calls[i].a[2]>> = <<calls[2].a[3], calls[2].a[4]>>

\* C8 witness: a nonzero vector no longer than the chevron was drawn
C8_Witness ==
    /\ ArrowDone /\ ArrowShort
    /\ args.n[3] # 0 /\ args.n[4] # 0
    /\ Len(calls) = 4

RadiusDone == pc = "done" /\ args.fn \in {"_circle", "circle", "fillcircle"}

\* C9 as stated: for every radius r <= 0 the circle routines make no call.
C9_Original == (RadiusDone /\ args.n[3] <= 0) => calls = << >>

\* C9 amended: for every negative radius the circle outline and filled
\* circle routines terminate without any pixel or line call; for r = 0 they
\* touch the centre pixel only: _circle (and circle, whose further radii are
\* negative) makes its four pixel calls at (x0, y0) and fillcircle its two
\* line calls from (x0, y0) to (x0, y0).  The negative radii circle() reaches
\* when width > r + 1 add no call to those of the radii r .. 0.
C9_DegenerateRadius ==
    RadiusDone =>
        LET x0 == args.n[1]
            y0 == args.n[2]
            r  == args.n[3]
            c  == args.n[4]
            px == Call("pixel", args.who, <<x0, y0, c>>)
            ln == Call("line", args.who, <<x0, y0, x0, y0, c>>)
        IN  /\ r < 0 => calls = << >>
            /\ (r = 0 /\ args.fn # "fillcircle") => calls = <<px, px, px, px>>
            /\ (r = 0 /\ args.fn = "fillcircle") => calls = <<ln, ln>>
            /\ (r >= 0 /\ args.fn = "circle" /\ args.n[5] > r + 1) =>
                   calls = circle_radii(args.who, x0, y0, range_down(r, -1), c)

\* C9 witness: circle() was called with a width that reaches negative radii
C9_Witness ==
    /\ pc = "done" /\ args.fn = "circle"
    /\ args.n[3] = 1 /\ args.n[5] = 3
    /\ Len(calls) = 12

----------------------------------------------------------------------------
(* Python values.  A colour argument or attribute is None, a bool or an    *)
(* int: [t |-> its type, v |-> its integer value] (False is 0, True is 1). *)

None == [t |-> "none", v |-> 0]
False == [t |-> "bool", v |-> 0]
True == [t |-> "bool", v |-> 1]
PyInt(i) == [t |-> "int", v |-> i]

\* isinstance(c, bool)
IsBool(c) == c.t = "bool"

\* the truth value of c: None and 0 are false
Truthy(c) == c.t # "none" /\ c.v # 0

\* A Writer bound to a device: writer.device (an id), the device's width and
\* height, writer.fgcolor and writer.bgcolor.
Writer(device, width, height, fgcolor, bgcolor) ==
    [device |-> device, width |-> width, height |-> height,
     fgcolor |-> fgcolor, bgcolor |-> bgcolor]

----------------------------------------------------------------------------
(* DObject.                                                                *)

\* DObject.__init__, the geometry checks: the stored row and col and the
\* number of calls of self.warning()
DObject_geometry(dw, dh, row, col, height, width) ==
    LET \* if row < 0 ... elif row + height >= device.height ...
        w1 == row < 0 \/ row + height >= dh
        r1 == IF row < 0 THEN 0
              ELSE IF row + height >= dh THEN dh - height - 1 ELSE row
        \* if col < 0 ... elif col + width >= device.width: row = ...
        w2 == col < 0 \/ col + width >= dw
        c2 == IF col < 0 THEN 0 ELSE col
        r2 == IF col >= 0 /\ col + width >= dw THEN dw - width - 1 ELSE r1
    IN  [row |-> r2, col |-> c2,
         warnings |-> (IF w1 THEN 1 ELSE 0) + (IF w2 THEN 1 ELSE 0)]

\* DObject.__init__(self, writer, row, col, height, width, fgcolor, bgcolor,
\* bdcolor): the attributes of the new instance, and the warnings printed
DObject_init(writer, row, col, height, width, fgcolor, bgcolor, bdcolor) ==
    LET g  == DObject_geometry(writer.width, writer.height, row, col, height, width)
        fg == IF fgcolor = None THEN writer.fgcolor ELSE fgcolor
        bg == IF bgcolor = None THEN writer.bgcolor ELSE bgcolor
        bd == IF bdcolor = None THEN fg ELSE bdcolor
    IN  [obj |-> [device |-> writer.device,
                  row |-> g.row, col |-> g.col, width |-> width, height |-> height,
                  _value |-> "None",
                  fgcolor |-> fg, bgcolor |-> bg, bdcolor |-> bd,
                  def_fgcolor |-> fg, def_bgcolor |-> bg, def_bdcolor |-> bd,
                  has_border |-> FALSE],
         warnings |-> g.warnings]

\* DObject.show(self): the instance afterwards and the device calls made
DObject_show(self) ==
    LET fill == Call("fill_rect", self.device,
                     <<self.col, self.row, self.width, self.height, self.bgcolor.v>>)
        outline(c) == Call("rect", self.device,
                     <<self.col - 2, self.row - 2, self.width + 4, self.height + 4, c.v>>)
    IN  IF IsBool(self.bdcolor)
        THEN IF self.has_border
             THEN [obj |-> [self EXCEPT !.has_border = FALSE],
                   calls |-> <<fill, outline(self.bgcolor)>>]
             ELSE [obj |-> self, calls |-> <<fill>>]
        ELSE IF Truthy(self.bdcolor)
             THEN [obj |-> [self EXCEPT !.has_border = TRUE],
                   calls |-> <<fill, outline(self.bdcolor)>>]
             ELSE [obj |-> self, calls |-> <<fill>>]

\* DObject.value(self, v=None): the instance afterwards and the value
\* returned; v = "None" is both value() and value(None)
DObject_value(self, v) ==
    LET o == IF v # "None" THEN [self EXCEPT !._value = v] ELSE self
    IN  [obj |-> o, ret |-> o._value]

----------------------------------------------------------------------------
(* The constructor applied to drawn arguments.  args.n holds row, col,     *)
(* height, width and the width and height of writer.device; the colours    *)
(* are left to their defaults.                                             *)

InitArgs ==
    { Args("__init__", "w1", FALSE, <<row, col, height, width, dw, dh>>, "None") :
        row \in -NegPos .. MaxPos, col \in -NegPos .. MaxPos,
        height \in 1 .. MaxSize, width \in 1 .. MaxSize,
        dw \in MinDim .. MaxDim, dh \in MinDim .. MaxDim }

CallInit ==
    /\ pc = "call" /\ args.fn = "__init__"
    /\ LET res == DObject_init(Writer("ssd", args.n[5], args.n[6], PyInt(1), PyInt(0)),
                               args.n[1], args.n[2], args.n[3], args.n[4], None, None, None)
       IN  /\ objs' = [w \in {args.who} |-> res.obj]
           /\ stdout' = res.warnings
    /\ ret' = "None"
    /\ pc' = "done"
    /\ UNCHANGED <<devices, args, calls, inits, dropped, pends>>

ConstructInit ==
    /\ args \in InitArgs
    /\ pc = "call"
    /\ calls = << >>
    /\ ret = "None"
    /\ stdout = 0
    /\ devices = << >>
    /\ objs = << >>
    /\ inits = << >>
    /\ dropped = {}
    /\ pends = << >>

ConstructNext == CallInit

SpecConstruct == ConstructInit /\ [][ConstructNext]_vars

\* C4 as stated: for every constructor input and device size construction
\* does not raise and the stored geometry satisfies 0 <= row, 0 <= col,
\* row + height < device.height and col + width < device.width; a negative
\* row ends as row = 0 whatever col and width are; every corrected violation
\* prints a warning.
C4_GeometryClamped ==
    (pc = "done" /\ args.fn = "__init__") =>
        LET o == objs[args.who]
        IN  /\ ret = "None"
            /\ 0 <= o.row /\ 0 <= o.col
            /\ o.row + o.height < args.n[6]
            /\ o.col + o.width < args.n[5]
            /\ args.n[1] < 0 => o.row = 0
            /\ (o.row # args.n[1] \/ o.col # args.n[2]) => stdout > 0

----------------------------------------------------------------------------
(* The GUI: two devices and three objects constructed on them.             *)

\* the framebuf.FrameBuffer instances, and an object that is not one
FrameBuffers == {"ssd", "lcd"}
NotFrameBuffers == {"str"}

Widgets == {"w1", "w2", "w3"}

\* the Writer of each device
Writers ==
    [ssd |-> Writer("ssd", 8, 8, PyInt(1), PyInt(0)),
     lcd |-> Writer("lcd", 6, 4, PyInt(2), PyInt(0))]

\* the objects as their constructors leave them
NewObjs ==
    [w1 |-> DObject_init(Writers.ssd, 2, 2, 2, 3, None, None, None).obj,
     w2 |-> DObject_init(Writers.ssd, 5, 3, 1, 2, None, None, False).obj,
     w3 |-> DObject_init(Writers.lcd, 1, 2, 1, 1, None, PyInt(1), PyInt(2)).obj]

\* the values an application sets; "None" is Python's None
Values == {"None", "a", "b"}

\* the border colours an application sets: False (no border) or a colour
BdColors == {False} \cup { PyInt(i) : i \in 0 .. MaxColor }

----------------------------------------------------------------------------
(* The render registry.  DObject.devices is a function from the registered *)
(* devices to their sets of pending objects.                               *)

\* the orders in which a for loop may run through the set S
Orders(S) == { o \in [1 .. Cardinality(S) -> S] : \A i, j \in DOMAIN o : o[i] = o[j] => i = j }

\* for obj in DObject.devices[device]: obj.show(), running through the
\* objects in the given order: the objects afterwards and the calls made
RECURSIVE show_pending(_, _)
show_pending(os, order) ==
    IF order = << >> THEN [objs |-> os, calls |-> << >>]
    ELSE LET obj  == Head(order)
             res  == DObject_show(os[obj])
             rest == show_pending([os EXCEPT ![obj] = res.obj], Tail(order))
         IN  [objs |-> rest.objs,
              calls |-> <<Call("show", obj, << >>)>> \o res.calls \o rest.calls]

\* a plausible slip: the pending set is not emptied after the objects are shown
refresh_keep(devs, os, device, clear, order) ==
    IF device \notin FrameBuffers
    THEN [devices |-> devs, objs |-> os, calls |-> << >>, ret |-> "ValueError"]
    ELSE IF device \notin DOMAIN devs
    THEN [devices |-> [d \in DOMAIN devs \cup {device} |-> IF d = device THEN {} ELSE devs[d]],
          objs |-> os,
          calls |-> <<Call("fill", device, <<0>>), Call("show", device, << >>)>>,
          ret |-> "None"]
    ELSE IF clear
    THEN [devices |-> [devs EXCEPT ![device] = {}],
          objs |-> os,
          calls |-> <<Call("pending.clear", device, << >>),
                      Call("fill", device, <<0>>), Call("show", device, << >>)>>,
          ret |-> "None"]
    ELSE LET shown == show_pending(os, order)
         IN  [devices |-> devs,
              objs |-> shown.objs,
              calls |-> shown.calls \o <<Call("show", device, << >>)>>,
              ret |-> "None"]

\* a plausible slip: a hard clear blanks the device but keeps the pending set
refresh_hard_keep(devs, os, device, clear, order) ==
    IF device \notin FrameBuffers
    THEN [devices |-> devs, objs |-> os, calls |-> << >>, ret |-> "ValueError"]
    ELSE IF device \notin DOMAIN devs
    THEN [devices |-> [d \in DOMAIN devs \cup {device} |-> IF d = device THEN {} ELSE devs[d]],
          objs |-> os,
          calls |-> <<Call("fill", device, <<0>>), Call("show", device, << >>)>>,
          ret |-> "None"]
    ELSE IF clear
    THEN [devices |-> devs,
          objs |-> os,
          calls |-> <<Call("fill", device, <<0>>), Call("show", device, << >>)>>,
          ret |-> "None"]
    ELSE LET shown == show_pending(os, order)
         IN  [devices |-> [devs EXCEPT ![device] = {}],
              objs |-> shown.objs,
              calls |-> shown.calls \o <<Call("pending.clear", device, << >>),
                                         Call("show", device, << >>)>>,
              ret |-> "None"]

\* a plausible slip: a device seen for the first time is registered and
\* presented without being blanked
refresh_no_fill(devs, os, device, clear, order) ==
    IF device \notin FrameBuffers
    THEN [devices |-> devs, objs |-> os, calls |-> << >>, ret |-> "ValueError"]
    ELSE IF device \notin DOMAIN devs
    THEN [devices |-> [d \in DOMAIN devs \cup {device} |-> IF d = device THEN {} ELSE devs[d]],
          objs |-> os,
          calls |-> <<Call("show", device, << >>)>>,
          ret |-> "None"]
    ELSE IF clear
    THEN [devices |-> [devs EXCEPT ![device] = {}],
          objs |-> os,
          calls |-> <<Call("pending.clear", device, << >>),
                      Call("fill", device, <<0>>), Call("show", device, << >>)>>,
          ret |-> "None"]
    ELSE LET shown == show_pending(os, order)
         IN  [devices |-> [devs EXCEPT ![device] = {}],
              objs |-> shown.objs,
              calls |-> shown.calls \o <<Call("pending.clear", device, << >>),
                                         Call("show", device, << >>)>>,
              ret |-> "None"]

\* refresh(device, clear) in the registry devs with the objects os; order is
\* the order in which the for loop runs through the pending set.  The result
\* is the registry and the objects afterwards, the calls made, and "None" or
\* the exception raised.
refresh(devs, os, device, clear, order) ==
    IF device \notin FrameBuffers
    THEN [devices |-> devs, objs |-> os, calls |-> << >>, ret |-> "ValueError"]
    ELSE IF device \notin DOMAIN devs
    THEN [devices |-> [d \in DOMAIN devs \cup {device} |-> IF d = device THEN {} ELSE devs[d]],
          objs |-> os,
          calls |-> <<Call("fill", device, <<0>>), Call("show", device, << >>)>>,
          ret |-> "None"]
    ELSE IF clear
    THEN [devices |-> [devs EXCEPT ![device] = {}],
          objs |-> os,
          calls |-> <<Call("pending.clear", device, << >>),
                      Call("fill", device, <<0>>), Call("show", device, << >>)>>,
          ret |-> "None"]
    ELSE LET shown == show_pending(os, order)
         IN  [devices |-> [devs EXCEPT ![device] = {}],
              objs |-> shown.objs,
              calls |-> shown.calls \o <<Call("pending.clear", device, << >>),
                                         Call("show", device, << >>)>>,
              ret |-> "None"]

\* a plausible slip: a missing entry is created (devices.setdefault)
_set_pend_setdefault(devs, os, obj) ==
    LET device == os[obj].device
    IN  [devices |-> [d \in DOMAIN devs \cup {device} |->
                         IF d = device
                         THEN (IF d \in DOMAIN devs THEN devs[d] ELSE {}) \cup {obj}
                         ELSE devs[d]],
         ret |-> "None"]

\* DObject._set_pend(obj): cls.devices[obj.device].add(obj)
_set_pend(devs, os, obj) ==
    LET device == os[obj].device
    IN  IF device \in DOMAIN devs
        THEN [devices |-> [devs EXCEPT ![device] = @ \cup {obj}], ret |-> "None"]
        ELSE [devices |-> devs, ret |-> "KeyError"]

----------------------------------------------------------------------------
(* The operations of one object: show(), value(), and the assignment of    *)
(* its bdcolor attribute.                                                  *)

\* obj.show()
Show(w) ==
    /\ LET res == DObject_show(objs[w])
       IN  /\ objs' = [objs EXCEPT ![w] = res.obj]
           /\ calls' = res.calls
    /\ args' = Args("show", w, FALSE, << >>, "None")
    /\ ret' = "None"
    /\ UNCHANGED <<devices, stdout, pc, inits, dropped, pends>>

\* obj.value() (explicit = FALSE, v = "None") and obj.value(v)
Value(w, explicit, v) ==
    /\ explicit \/ v = "None"
    /\ LET res == DObject_value(objs[w], v)
       IN  /\ objs' = [objs EXCEPT ![w] = res.obj]
           /\ ret' = res.ret
    /\ args' = Args("value", w, explicit, << >>, v)
    /\ calls' = << >>
    /\ UNCHANGED <<devices, stdout, pc, inits, dropped, pends>>

\* obj.bdcolor = c
SetBdcolor(w, c) ==
    /\ objs' = [objs EXCEPT ![w].bdcolor = c]
    /\ args' = Args("bdcolor", w, FALSE, <<c.v>>, c.t)
    /\ calls' = << >>
    /\ ret' = "None"
    /\ UNCHANGED <<devices, stdout, pc, inits, dropped, pends>>

GuiInit ==
    /\ devices = << >>
    /\ objs = NewObjs
    /\ args = Args("import", "", FALSE, << >>, "None")
    /\ calls = << >>
    /\ ret = "None"
    /\ stdout = 0
    /\ pc = "idle"
    /\ inits = [d \in FrameBuffers |-> 0]
    /\ dropped = {}
    /\ pends = [w \in Widgets |-> [since |-> 0, flushed |-> 0]]

WidgetNext ==
    \/ \E w \in Widgets : Show(w)
    \/ \E w \in Widgets, explicit \in BOOLEAN, v \in Values : Value(w, explicit, v)
    \/ \E w \in Widgets, c \in BdColors : SetBdcolor(w, c)

SpecWidget == GuiInit /\ [][WidgetNext]_vars

\* C5 as stated: value() with no argument returns the stored value and
\* changes nothing; value(v) with an argument, None included, stores v and
\* returns it.
C5_ValueSetter ==
    [][ args'.fn = "value" =>
            IF args'.flag
            THEN /\ objs'[args'.who]._value = args'.v
                 /\ ret' = args'.v
            ELSE /\ ret' = objs[args'.who]._value
                 /\ objs' = objs ]_vars

\* the outline rectangle of an object, in the colour c
Outline(o, c) == Call("rect", o.device, <<o.col - 2, o.row - 2, o.width + 4, o.height + 4, c>>)

\* C6 as stated: show() fills the content rectangle with the background
\* colour and then, if bdcolor is a colour (any int) draws the outline in it
\* and sets has_border; if bdcolor is False and has_border is set erases the
\* outline in the background colour and clears has_border; otherwise draws
\* no outline.
C6_ShowBorder ==
    [][ args'.fn = "show" =>
            LET o    == objs[args'.who]
                o2   == objs'[args'.who]
                fill == Call("fill_rect", o.device, <<o.col, o.row, o.width, o.height, o.bgcolor.v>>)
            IN  IF o.bdcolor.t = "int"
                THEN calls' = <<fill, Outline(o, o.bdcolor.v)>> /\ o2.has_border
                ELSE IF o.has_border
                THEN calls' = <<fill, Outline(o, o.bgcolor.v)>> /\ ~o2.has_border
                ELSE calls' = <<fill>> /\ ~o2.has_border ]_vars

----------------------------------------------------------------------------
(* The registry operations.                                                *)

\* the number of calls of fn on the receiver on in a sequence of calls
NCalls(cs, fn, on) == Cardinality({ i \in 1 .. Len(cs) : cs[i].fn = fn /\ cs[i].on = on })

\* refresh(device, clear)
Refresh(device, clear) ==
    \E order \in Orders(IF device \in DOMAIN devices THEN devices[device] ELSE {}) :
        LET res   == refresh(devices, objs, device, clear, order)
            known == device \in DOMAIN devices
        IN  /\ devices' = res.devices
            /\ objs' = res.objs
            /\ calls' = res.calls
            /\ ret' = res.ret
            /\ args' = Args("refresh", device, clear, << >>, "None")
            /\ inits' = [d \in FrameBuffers |->
                            IF d = device /\ ~known
                            THEN inits[d] + NCalls(res.calls, "fill", d) ELSE inits[d]]
            /\ dropped' = IF known /\ clear THEN dropped \cup devices[device] ELSE dropped
            /\ pends' = [w \in Widgets |->
                            IF objs[w].device = device
                            THEN [since |-> 0, flushed |-> pends[w].since]
                            ELSE [since |-> pends[w].since, flushed |-> 0]]
            /\ UNCHANGED <<stdout, pc>>

\* DObject._set_pend(obj)
SetPend(obj) ==
    /\ pends[obj].since < MaxPend
    /\ LET res == _set_pend(devices, objs, obj)
       IN  /\ devices' = res.devices
           /\ ret' = res.ret
           /\ dropped' = IF res.ret = "None" THEN dropped \ {obj} ELSE dropped
           /\ pends' = [w \in Widgets |->
                           [since |-> IF w = obj /\ res.ret = "None"
                                      THEN pends[w].since + 1 ELSE pends[w].since,
                            flushed |-> 0]]
    /\ args' = Args("_set_pend", obj, FALSE, << >>, "None")
    /\ calls' = << >>
    /\ UNCHANGED <<objs, stdout, pc, inits>>

Init == GuiInit

Next ==
    \/ \E device \in FrameBuffers \cup NotFrameBuffers, clear \in BOOLEAN : Refresh(device, clear)
    \/ \E obj \in Widgets : SetPend(obj)

Spec == Init /\ [][Next]_vars

----------------------------------------------------------------------------
(* Claims about the registry (checked under Spec).                         *)

\* the step is refresh(device, clear) on a device registered before it
RefreshKnown(clear) ==
    /\ args'.fn = "refresh"
    /\ args'.flag = clear
    /\ args'.who \in DOMAIN devices

\* the positions in cs of the calls of fn on the receiver on
Positions(cs, fn, on) == { i \in 1 .. Len(cs) : cs[i].fn = fn /\ cs[i].on = on }

\* C1: on a registered device, refresh(device) without clear calls show()
\* exactly once on every object pended at least once since the previous
\* refresh of the device, however often it was pended, calls show() on no
\* other object, and empties the device's pending set before the device is
\* presented: the set is cleared after the last obj.show() and before the
\* one device.show(), which is the last call.
C1_FlushShowsPendedOnce ==
    [][ RefreshKnown(FALSE) =>
            LET d == args'.who
                n == Len(calls')
            IN  /\ \A w \in Widgets :
                       NCalls(calls', "show", w)
                           = IF objs[w].device = d /\ pends[w].since >= 1 THEN 1 ELSE 0
                /\ devices'[d] = {}
                /\ Positions(calls', "show", d) = {n}
                /\ Positions(calls', "pending.clear", d) = {n - 1}
                /\ \A w \in Widgets : \A i \in Positions(calls', "show", w) : i < n - 1 ]_vars

\* C1 witness: w1 was pended twice and w2 once, and the refresh that
\* followed showed each of them once and left nothing pending
C1_Witness ==
    /\ args.fn = "refresh" /\ ~args.flag /\ args.who = "ssd"
    /\ pends["w1"].flushed = 2 /\ pends["w2"].flushed = 1
    /\ NCalls(calls, "show", "w1") = 1 /\ NCalls(calls, "show", "w2") = 1
    /\ devices["ssd"] = {}

\* C2: refresh(device, clear=True) on a registered device calls show() on no
\* object, empties the device's pending set, blanks the device with fill(0)
\* and then presents it; an object that was pending at a hard clear is shown
\* by no later refresh unless it is pended again.
C2_HardClearDiscards ==
    [][ /\ RefreshKnown(TRUE) =>
            LET d == args'.who
            IN  /\ calls' = <<Call("pending.clear", d, << >>),
                              Call("fill", d, <<0>>), Call("show", d, << >>)>>
                /\ devices'[d] = {}
        /\ args'.fn = "refresh" => \A w \in dropped : NCalls(calls', "show", w) = 0 ]_vars

\* C2 witness: w1 was discarded by a hard clear and a later refresh of its
\* device showed w2, pended since, and not w1
C2_Witness ==
    /\ args.fn = "refresh" /\ ~args.flag /\ args.who = "ssd"
    /\ "w1" \in dropped
    /\ NCalls(calls, "show", "w2") = 1
    /\ NCalls(calls, "show", "w1") = 0

\* every registered device was blanked by a first-use refresh exactly once,
\* and no other device was
InitializedOnce ==
    \A d \in FrameBuffers : inits[d] = IF d \in DOMAIN devices THEN 1 ELSE 0

\* C3: the first refresh of a device, with or without clear, registers it
\* with an empty pending set, blanks it and presents it without calling any
\* object's show(); every registered device has been initialized exactly
\* once, and that initialization precedes every show() refresh calls for it.
C3_FirstUseInitializes ==
    /\ []InitializedOnce
    /\ [][ args'.fn = "refresh" =>
              /\ (args'.who \in FrameBuffers /\ args'.who \notin DOMAIN devices) =>
                    /\ calls' = <<Call("fill", args'.who, <<0>>), Call("show", args'.who, << >>)>>
                    /\ DOMAIN devices' = DOMAIN devices \cup {args'.who}
                    /\ devices'[args'.who] = {}
              /\ \A w \in Widgets :
                    NCalls(calls', "show", w) > 0 => inits[objs[w].device] = 1 ]_vars

\* C3 witness: both devices are registered and a refresh has shown an object
C3_Witness ==
    /\ DOMAIN devices = FrameBuffers
    /\ args.fn = "refresh"
    /\ NCalls(calls, "show", "w3") = 1
    /\ inits["lcd"] = 1

\* C10: an object is pended only on a registered device: _set_pend of an
\* object whose device was never passed to refresh raises KeyError, creates
\* no registry entry and leaves the registry unchanged; a _set_pend that
\* returns adds the object to its device's set and changes nothing else;
\* only refresh adds a device to the registry, and no device ever leaves it.
C10_PendNeedsRegisteredDevice ==
    /\ [](\A d \in DOMAIN devices : \A w \in devices[d] : objs[w].device = d)
    /\ [][ /\ args'.fn = "_set_pend" =>
                LET d == objs[args'.who].device
                IN  IF d \in DOMAIN devices
                    THEN /\ ret' = "None"
                         /\ devices' = [devices EXCEPT ![d] = @ \cup {args'.who}]
                    ELSE /\ ret' = "KeyError"
                         /\ devices' = devices
           /\ DOMAIN devices \subseteq DOMAIN devices'
           /\ DOMAIN devices' # DOMAIN devices => args'.fn = "refresh" ]_vars

\* C10 witness: _set_pend failed for w3, whose device is not registered,
\* while another device is registered and has an object pending
C10_Witness ==
    /\ args.fn = "_set_pend" /\ args.who = "w3" /\ ret = "KeyError"
    /\ DOMAIN devices = {"ssd"}
    /\ devices["ssd"] # {}

====
